---- MODULE Spec2Model ----
(***************************************************************************)
(* Schedify: task visibility, work-log validation, manual ordering, the    *)
(* weekly report and the IndexedDB persistence gateway, modelled from      *)
(* src/src/app/page.tsx, src/src/components/TaskCard.tsx,                  *)
(* src/src/components/TaskForm.tsx and src/src/lib/db.ts.                  *)
(*                                                                         *)
(* Encodings.                                                              *)
(*  - A date string is an integer: 0 is the empty string / undefined (both *)
(*    falsy in JS), 1..MaxDay is the well-formed string of day k of one    *)
(*    month, BadDate is a string that is not a calendar date.              *)
(*  - A time string "HH:mm" is its minute of the day; EmptyTime is "".     *)
(*  - NaN is the result of getTime() on an invalid Date; every comparison  *)
(*    with NaN is false.                                                   *)
(***************************************************************************)
EXTENDS Integers, Sequences, FiniteSets, TLC

VARIABLES
    store,        \* IndexedDB object store 'tasks': id -> record (keyPath id)
    clock,        \* Date.now(), the source of task and log ids
    currentDate,  \* page state currentDate, formatted yyyy-MM-dd
    tasks,        \* page state tasks: the in-memory list of the day view
    cards,        \* TaskCard state localTask of every mounted card: id -> record
    dbQueue,      \* db requests in flight, in the order their transactions were created
    loading,      \* page state loading: the flag behind the loading indicator
    editing,      \* the ids of the mounted cards whose state isEditing is true
    lastOp,       \* the handler that ran last, with its arguments and its alert()
    call,         \* pure-function specifications: the arguments of the call
    ret           \* pure-function specifications: [done, val] of the call

vars ==
    <<store, clock, currentDate, tasks, cards, dbQueue, loading, editing, lastOp, editing, call, ret>>

appVars == <<store, clock, currentDate, tasks, cards, dbQueue, loading, editing, lastOp>>

----
\* Bounds of the model

MaxDay == 2

MaxSlot == 3

MaxExisting == 2

----
\* Encodings of strings, dates and times

EmptyStr == 0

BadDate == 0 - 1

NaN == 0 - 1

EmptyTime == 0 - 1

MsPerDay == 86400000

MsPerMinute == 60000

DayStartMinute == 540

SlotMinutes == 30

ValidDates == 1..MaxDay

DateStrs == ValidDates \cup {EmptyStr, BadDate}

\* the HH:mm strings the model enters: 09:00, 09:30, 10:00, ...
TimeStrs == {DayStartMinute + k * SlotMinutes : k \in 0..MaxSlot}

\* new Date('YYYY-MM-DD').getTime(): a date-only ISO string is UTC midnight
DateGetTime(s) == IF s \in ValidDates THEN s * MsPerDay ELSE NaN

\* new Date(`1970-01-01T${t}`).getTime(): minutes since local midnight, in ms
TimeGetTime(t) == IF t = EmptyTime THEN NaN ELSE t * MsPerMinute

\* JS relational operators on numbers: false as soon as one side is NaN
NumGeq(a, b) == a # NaN /\ b # NaN /\ a >= b

NumLeq(a, b) == a # NaN /\ b # NaN /\ a <= b

NumGt(a, b) == a # NaN /\ b # NaN /\ a > b

NumLt(a, b) == a # NaN /\ b # NaN /\ a < b

\* JS a || b on strings: the first operand unless it is falsy
StrOr(a, b) == IF a # EmptyStr THEN a ELSE b

----
\* page.tsx: the pure functions

shouldTaskAppearOnDate_RangeFirst(task, dateStr) ==
    IF task.startDate # EmptyStr /\ task.endDate # EmptyStr
    THEN /\ NumGeq(DateGetTime(dateStr), DateGetTime(task.startDate))
         /\ NumLeq(DateGetTime(dateStr), DateGetTime(task.endDate))
    ELSE task.date = dateStr

shouldTaskAppearOnDate_EndExclusive(task, dateStr) ==
    IF task.isAdHoc
    THEN task.date = dateStr
    ELSE IF task.startDate # EmptyStr /\ task.endDate # EmptyStr
         THEN /\ NumGeq(DateGetTime(dateStr), DateGetTime(task.startDate))
              /\ NumLt(DateGetTime(dateStr), DateGetTime(task.endDate))
         ELSE task.date = dateStr

shouldTaskAppearOnDate(task, dateStr) ==
    IF task.isAdHoc
    THEN task.date = dateStr
    ELSE IF task.startDate # EmptyStr /\ task.endDate # EmptyStr
         THEN /\ NumGeq(DateGetTime(dateStr), DateGetTime(task.startDate))
              /\ NumLeq(DateGetTime(dateStr), DateGetTime(task.endDate))
         ELSE task.date = dateStr

LogOverlaps_Closed(newStartTime, newEndTime, log) ==
    LET logStartTime == TimeGetTime(log.startTime)
        logEndTime == TimeGetTime(log.endTime)
    IN  \/ NumGeq(newStartTime, logStartTime) /\ NumLeq(newStartTime, logEndTime)
        \/ NumGt(newEndTime, logStartTime) /\ NumLeq(newEndTime, logEndTime)
        \/ NumLeq(newStartTime, logStartTime) /\ NumGeq(newEndTime, logEndTime)

\* the body of the some() callback of isTimeRangeOverlap
LogOverlaps(newStartTime, newEndTime, log) ==
    LET logStartTime == TimeGetTime(log.startTime)
        logEndTime == TimeGetTime(log.endTime)
    IN  \/ NumGeq(newStartTime, logStartTime) /\ NumLt(newStartTime, logEndTime)
        \/ NumGt(newEndTime, logStartTime) /\ NumLeq(newEndTime, logEndTime)
        \/ NumLeq(newStartTime, logStartTime) /\ NumGeq(newEndTime, logEndTime)

isTimeRangeOverlap(newStart, newEnd, existingLogs) ==
    \E i \in 1..Len(existingLogs) :
        LogOverlaps(TimeGetTime(newStart), TimeGetTime(newEnd), existingLogs[i])

----
\* Specifications of the pure functions: Init draws the arguments, the action applies

NoCall == [fn |-> "none"]

EmptyMap == [k \in {} |-> 0]

NoRet == [done |-> FALSE, val |-> FALSE]

ResolverTasks ==
    [isAdHoc : BOOLEAN, date : DateStrs, startDate : DateStrs, endDate : DateStrs]

Intervals == [startTime : TimeStrs, endTime : TimeStrs]

IntervalLists == UNION {[1..n -> Intervals] : n \in 0..MaxExisting}

AppIdle ==
    /\ store = EmptyMap
    /\ clock = 1
    /\ currentDate = 1
    /\ tasks = <<>>
    /\ cards = EmptyMap
    /\ dbQueue = <<>>
    /\ loading = FALSE
    /\ editing = {}
    /\ lastOp = [op |-> "none"]

InitResolver ==
    /\ AppIdle
    /\ call \in [fn : {"shouldTaskAppearOnDate"}, task : ResolverTasks, dateStr : DateStrs]
    /\ ret = NoRet

ApplyResolver ==
    /\ call.fn = "shouldTaskAppearOnDate"
    /\ ~ret.done
    /\ ret' = [done |-> TRUE, val |-> shouldTaskAppearOnDate(call.task, call.dateStr)]
    /\ UNCHANGED <<call, appVars>>

SpecResolver == InitResolver /\ [][ApplyResolver]_vars

InitOverlap ==
    /\ AppIdle
    /\ call \in [fn : {"isTimeRangeOverlap"}, newStart : TimeStrs, newEnd : TimeStrs,
                 existingLogs : IntervalLists]
    /\ ret = NoRet

ApplyOverlap ==
    /\ call.fn = "isTimeRangeOverlap"
    /\ ~ret.done
    /\ ret' = [done |-> TRUE,
               val |-> isTimeRangeOverlap(call.newStart, call.newEnd, call.existingLogs)]
    /\ UNCHANGED <<call, appVars>>

SpecOverlap == InitOverlap /\ [][ApplyOverlap]_vars

----
\* Bounds of the application model

\* Date.now() stops before MaxClock for new tasks, before MaxLogClock for new logs
MaxClock == 3

MaxLogClock == 4

\* a handler starts only while fewer than MaxQueue requests are in flight
MaxQueue == 2

\* the largest database the reorder specification starts from
MaxStored == 3

----
\* Helpers on lists and on the object store

IdsOf(list) == {list[i].id : i \in 1..Len(list)}

\* Array.prototype.findIndex by id, 1-based; 0 stands for -1
FindIndex(list, id) ==
    IF \E i \in 1..Len(list) : list[i].id = id
    THEN CHOOSE i \in 1..Len(list) : list[i].id = id /\ \A j \in 1..(i - 1) : list[j].id # id
    ELSE 0

IsIncomplete(t) == ~t.completed

RemoveAt(list, i) == SubSeq(list, 1, i - 1) \o SubSeq(list, i + 1, Len(list))

\* list.splice(i0, 0, x) with i0 = i - 1: x ends up at 1-based position i
InsertAt(list, i, x) ==
    LET k == IF i - 1 > Len(list) THEN Len(list) ELSE i - 1
    IN  SubSeq(list, 1, k) \o <<x>> \o SubSeq(list, k + 1, Len(list))

\* Array.prototype.sort((a, b) => a.order - b.order): stable, ascending
RECURSIVE SortByOrder(_)
SortByOrder(list) ==
    IF Len(list) = 0 THEN <<>>
    ELSE LET m == CHOOSE i \in 1..Len(list) :
                      /\ \A j \in 1..Len(list) : list[i].order <= list[j].order
                      /\ \A j \in 1..(i - 1) : list[j].order # list[i].order
         IN  <<list[m]>> \o SortByOrder(RemoveAt(list, m))

\* the keys of the object store in key order (ids of one length: ascending)
RECURSIVE KeyOrder(_)
KeyOrder(S) ==
    IF S = {} THEN <<>>
    ELSE LET m == CHOOSE x \in S : \A y \in S : x <= y
         IN  <<m>> \o KeyOrder(S \ {m})

\* IDBObjectStore.put: insert or replace the record under its key
Put(st, rec) == [k \in DOMAIN st \cup {rec.id} |-> IF k = rec.id THEN rec ELSE st[k]]

\* IDBObjectStore.delete
Remove(st, id) == [k \in DOMAIN st \ {id} |-> st[k]]

RECURSIVE PutAll(_, _)
PutAll(st, recs) ==
    IF Len(recs) = 0 THEN st ELSE PutAll(Put(st, Head(recs)), Tail(recs))

RECURSIVE SumDuration(_)
SumDuration(logs) ==
    IF Len(logs) = 0 THEN 0 ELSE Head(logs).duration + SumDuration(Tail(logs))

----
\* db.ts: the persistence gateway

\* A JS object is a record; an optional property that is undefined is a field
\* the record does not have.

\* the optional properties of Task that the gateway backfills
BackfilledFields == {"startDate", "endDate", "logs", "totalDuration"}

\* a string property read for its truthiness: undefined and '' are both falsy
StrField(task, f) == IF f \in DOMAIN task THEN task[f] ELSE EmptyStr

WithDefaults_DateWins(task) ==
    [f \in DOMAIN task \cup BackfilledFields |->
        CASE f = "startDate" ->
                 StrOr(StrOr(StrField(task, "date"), StrField(task, "startDate")), EmptyStr)
          [] f = "endDate" ->
                 StrOr(StrOr(StrField(task, "date"), StrField(task, "endDate")), EmptyStr)
          [] f = "logs" -> IF "logs" \in DOMAIN task THEN task.logs ELSE <<>>
          [] f = "totalDuration" ->
                 IF "totalDuration" \in DOMAIN task THEN task.totalDuration ELSE 0
          [] OTHER -> task[f]]

\* the defaults the version-4 upgrade, every put and getAllTasks apply to a record:
\* { ...task, startDate: task.startDate || task.date || '', endDate: ...,
\*   logs: task.logs || [], totalDuration: task.totalDuration || 0 }
WithDefaults(task) ==
    [f \in DOMAIN task \cup BackfilledFields |->
        CASE f = "startDate" ->
                 StrOr(StrOr(StrField(task, "startDate"), StrField(task, "date")), EmptyStr)
          [] f = "endDate" ->
                 StrOr(StrOr(StrField(task, "endDate"), StrField(task, "date")), EmptyStr)
          [] f = "logs" -> IF "logs" \in DOMAIN task THEN task.logs ELSE <<>>
          [] f = "totalDuration" ->
                 IF "totalDuration" \in DOMAIN task THEN task.totalDuration ELSE 0
          [] OTHER -> task[f]]

\* addTask: the record handed to store.add
addTaskRecord(task, now) ==
    [id |-> now,
     date |-> StrOr(task.date, EmptyStr),
     isAdHoc |-> task.isAdHoc,
     order |-> task.order,
     completed |-> task.completed,
     completedAt |-> 0,
     startDate |-> StrOr(StrOr(task.startDate, task.date), EmptyStr),
     endDate |-> StrOr(StrOr(task.endDate, task.date), EmptyStr),
     logs |-> task.logs,
     totalDuration |-> task.totalDuration]

\* getAllTasks: every record in key order, with the defaults
getAllTasks(st) ==
    LET keys == KeyOrder(DOMAIN st)
    IN  [i \in 1..Len(keys) |-> WithDefaults(st[keys[i]])]

----
\* page.tsx: the day view

\* useMemo incompleteTasks: the incomplete tasks of the list, sorted by order
incompleteTasks(list) == SortByOrder(SelectSeq(list, IsIncomplete))

\* loadTasks after getAllTasks has answered: filter by the resolver
loadedTasks(st, dateStr) ==
    LET Appears(t) == shouldTaskAppearOnDate(t, dateStr)
    IN  SelectSeq(getAllTasks(st), Appears)

\* useEffect of TaskCard on [task]: every card of the list shows its task
CardsOf(list) == [id \in IdsOf(list) |-> list[FindIndex(list, id)]]

\* the order counter of moveTask: incomplete tasks numbered in list order
Renumber_FromOne(list) ==
    [i \in 1..Len(list) |->
        IF ~list[i].completed
        THEN [list[i] EXCEPT !.order =
                 1 + Cardinality({j \in 1..(i - 1) : ~list[j].completed})]
        ELSE list[i]]

Renumber(list) ==
    [i \in 1..Len(list) |->
        IF ~list[i].completed
        THEN [list[i] EXCEPT !.order = Cardinality({j \in 1..(i - 1) : ~list[j].completed})]
        ELSE list[i]]

\* whether a 0-based index names an element of the incomplete tasks of a list
RefersToIncomplete(list, index) == index + 1 \in 1..Len(SelectSeq(list, IsIncomplete))

moveTask_NoHoverGuard(prevTasks, dragIndex, hoverIndex) ==
    LET incomplete == SelectSeq(prevTasks, IsIncomplete)
    IN  IF ~RefersToIncomplete(prevTasks, dragIndex)
        THEN [noop |-> TRUE, tasks |-> prevTasks, tasksToUpdate |-> <<>>]
        ELSE LET dragActualIndex == FindIndex(prevTasks, incomplete[dragIndex + 1].id)
                 hoverActualIndex ==
                     IF RefersToIncomplete(prevTasks, hoverIndex)
                     THEN FindIndex(prevTasks, incomplete[hoverIndex + 1].id)
                     ELSE Len(prevTasks)
                 draggedTask == prevTasks[dragActualIndex]
                 newTasks == InsertAt(RemoveAt(prevTasks, dragActualIndex),
                                      hoverActualIndex, draggedTask)
                 updatedTasks == Renumber(newTasks)
             IN  [noop |-> FALSE, tasks |-> updatedTasks,
                  tasksToUpdate |-> SelectSeq(updatedTasks, IsIncomplete)]

\* moveTask: the updater passed to setTasks; indices are 0-based
moveTask(prevTasks, dragIndex, hoverIndex) ==
    LET incomplete == SelectSeq(prevTasks, IsIncomplete)
        hasDrag == RefersToIncomplete(prevTasks, dragIndex)
        hasHover == RefersToIncomplete(prevTasks, hoverIndex)
    IN  IF ~hasDrag \/ ~hasHover
        THEN [noop |-> TRUE, tasks |-> prevTasks, tasksToUpdate |-> <<>>]
        ELSE LET dragActualIndex == FindIndex(prevTasks, incomplete[dragIndex + 1].id)
                 hoverActualIndex == FindIndex(prevTasks, incomplete[hoverIndex + 1].id)
             IN  IF dragActualIndex = 0 \/ hoverActualIndex = 0
                 THEN [noop |-> TRUE, tasks |-> prevTasks, tasksToUpdate |-> <<>>]
                 ELSE LET draggedTask == prevTasks[dragActualIndex]
                          newTasks == InsertAt(RemoveAt(prevTasks, dragActualIndex),
                                               hoverActualIndex, draggedTask)
                          updatedTasks == Renumber(newTasks)
                      IN  [noop |-> FALSE, tasks |-> updatedTasks,
                           tasksToUpdate |-> SelectSeq(updatedTasks, IsIncomplete)]

----
\* TaskForm.tsx and page.tsx: adding, deleting, completing and moving tasks

Other == [op |-> "other"]

\* TaskForm.handleSubmit: the task handed to onSubmit
formTask(date, isAdHoc, startDate, endDate) ==
    [date |-> date, isAdHoc |-> isAdHoc, completed |-> FALSE, order |-> 0,
     startDate |-> startDate, endDate |-> endDate, logs |-> <<>>, totalDuration |-> 0]

\* the values the model types into the form: no range, or the whole month
FormRanges == {<<EmptyStr, EmptyStr>>, <<1, MaxDay>>}

\* loadTasks up to its await: the request carries the date formatted at the call
LoadRequest(dateStr) == [op |-> "getAll", dateStr |-> dateStr]

\* handleAddTask: the order of a new task
newTaskOrder(list) == Len(incompleteTasks(list))

HandleAddTask(isAdHoc, startDate, endDate) ==
    /\ clock < MaxClock
    /\ Len(dbQueue) < MaxQueue
    /\ LET task == formTask(currentDate, isAdHoc, startDate, endDate)
           newTask == [task EXCEPT !.order = newTaskOrder(tasks),
                                   !.logs = <<>>, !.totalDuration = 0]
       IN  dbQueue' = Append(dbQueue, [op |-> "add", task |-> addTaskRecord(newTask, clock)])
    /\ clock' = clock + 1
    /\ loading' = TRUE
    /\ lastOp' = Other
    /\ UNCHANGED <<store, currentDate, tasks, cards, editing, call, ret>>

\* requestDelete and the confirmed deleteTask, up to its await
DeleteTask(id) ==
    /\ id \in IdsOf(tasks)
    /\ Len(dbQueue) < MaxQueue
    /\ dbQueue' = Append(dbQueue, [op |-> "delete", id |-> id])
    /\ loading' = TRUE
    /\ lastOp' = Other
    /\ UNCHANGED <<store, clock, currentDate, tasks, cards, editing, call, ret>>

UpdateRequests_NoStamp(task) ==
    IF FindIndex(tasks, task.id) = 0 THEN <<>> ELSE <<[op |-> "update", task |-> task]>>

\* handleUpdateTask up to its await: the request issued for a task, if any
UpdateRequests(task) ==
    LET idx == FindIndex(tasks, task.id)
    IN  IF idx = 0 THEN <<>>
        ELSE <<[op |-> "update",
                task |-> IF tasks[idx].completed # task.completed
                         THEN [task EXCEPT !.completedAt = IF task.completed THEN clock ELSE 0]
                         ELSE task]>>

\* handleUpdateTask: setLoading(true), and setLoading(false) in its finally when it
\* returns before its await because the task is not in the list
UpdateLoading(task) == UpdateRequests(task) # <<>>

\* TaskCard.handleCompletedChange; the checkbox is rendered outside edit mode only
HandleCompletedChange(id) ==
    /\ id \in DOMAIN cards
    /\ id \notin editing
    /\ Len(dbQueue) < MaxQueue
    /\ LET updatedTask == [cards[id] EXCEPT !.completed = ~cards[id].completed]
       IN  /\ cards' = [cards EXCEPT ![id] = updatedTask]
           /\ dbQueue' = dbQueue \o UpdateRequests(updatedTask)
           /\ loading' = UpdateLoading(updatedTask)
    /\ lastOp' = Other
    /\ UNCHANGED <<store, clock, currentDate, tasks, editing, call, ret>>

\* moveTask with its setTasks, the cards' effect and the batch request
MoveTask(dragIndex, hoverIndex) ==
    /\ Len(dbQueue) < MaxQueue
    /\ LET r == moveTask(tasks, dragIndex, hoverIndex)
       IN  /\ tasks' = r.tasks
           /\ lastOp' = [op |-> "moveTask", noop |-> r.noop,
                         dragOk |-> RefersToIncomplete(tasks, dragIndex),
                         hoverOk |-> RefersToIncomplete(tasks, hoverIndex)]
           /\ IF r.noop
              THEN UNCHANGED <<cards, dbQueue>>
              ELSE /\ cards' = [id \in DOMAIN cards |->
                                   LET idx == FindIndex(r.tasks, id)
                                   IN  IF idx # 0 /\ ~r.tasks[idx].completed
                                       THEN r.tasks[idx] ELSE cards[id]]
                   /\ dbQueue' = Append(dbQueue, [op |-> "batch", tasks |-> r.tasksToUpdate])
    /\ UNCHANGED <<store, clock, currentDate, loading, editing, call, ret>>

\* nextDay / prevDay and the effect that reloads the day
NextDay ==
    /\ currentDate < MaxDay
    /\ Len(dbQueue) < MaxQueue
    /\ currentDate' = currentDate + 1
    /\ dbQueue' = Append(dbQueue, LoadRequest(currentDate'))
    /\ loading' = TRUE
    /\ lastOp' = Other
    /\ UNCHANGED <<store, clock, tasks, cards, editing, call, ret>>

PrevDay ==
    /\ currentDate > 1
    /\ Len(dbQueue) < MaxQueue
    /\ currentDate' = currentDate - 1
    /\ dbQueue' = Append(dbQueue, LoadRequest(currentDate'))
    /\ loading' = TRUE
    /\ lastOp' = Other
    /\ UNCHANGED <<store, clock, tasks, cards, editing, call, ret>>

\* goToday: a new Date object for today, so the effect reloads the day
GoToday ==
    /\ Len(dbQueue) < MaxQueue
    /\ currentDate' = 1
    /\ dbQueue' = Append(dbQueue, LoadRequest(currentDate'))
    /\ loading' = TRUE
    /\ lastOp' = Other
    /\ UNCHANGED <<store, clock, tasks, cards, editing, call, ret>>

----
\* TaskCard.tsx: work logs

calculateDuration(start, end) ==
    LET startH == start \div 60
        startM == start % 60
        endH == end \div 60
        endM == end % 60
    IN  (endH * 60 + endM) - (startH * 60 + startM)

\* page.tsx validateTimeRange: a two-parameter arrow function over the task prop;
\* the third argument the card passes is dropped
validateTimeRange(task, startTime, endTime, dropped) ==
    isTimeRangeOverlap(startTime, endTime, task.logs)

\* TaskCard.isTimeRangeOverlap
cardIsTimeRangeOverlap(task, localTask, start, end, date) ==
    LET Differs(log) == log.date # date \/ log.startTime # start \/ log.endTime # end
        otherLogs == SelectSeq(localTask.logs, Differs)
    IN  validateTimeRange(task, start, end, otherLogs)

handleAddLogVerdict_OverlapFirst(task, localTask, newLog) ==
    IF newLog.startTime = EmptyTime \/ newLog.endTime = EmptyTime THEN "return"
    ELSE IF cardIsTimeRangeOverlap(task, localTask, newLog.startTime, newLog.endTime,
                                   newLog.date)
         THEN "overlap"
         ELSE IF calculateDuration(newLog.startTime, newLog.endTime) <= 0
              THEN "duration"
              ELSE "ok"

\* handleAddLog: which of its exits a proposed log takes
handleAddLogVerdict(task, localTask, newLog) ==
    IF newLog.startTime = EmptyTime \/ newLog.endTime = EmptyTime THEN "return"
    ELSE IF calculateDuration(newLog.startTime, newLog.endTime) <= 0 THEN "duration"
         ELSE IF cardIsTimeRangeOverlap(task, localTask, newLog.startTime,
                                        newLog.endTime, newLog.date)
              THEN "overlap"
              ELSE "ok"

withLogs_StaleTotal(localTask, updatedLogs) ==
    [localTask EXCEPT !.logs = updatedLogs]

\* the updatedTask of handleAddLog and handleDeleteLog
withLogs(localTask, updatedLogs) ==
    [localTask EXCEPT !.logs = updatedLogs, !.totalDuration = SumDuration(updatedLogs)]

NewLogs == [date : ValidDates, startTime : TimeStrs \cup {EmptyTime},
            endTime : TimeStrs \cup {EmptyTime}]

\* both time inputs of the log form hold a time
IsFilled(newLog) == newLog.startTime # EmptyTime /\ newLog.endTime # EmptyTime

HandleAddLog(id, newLog) ==
    /\ id \in DOMAIN cards
    /\ id \notin editing
    /\ clock < MaxLogClock
    /\ Len(dbQueue) < MaxQueue
    /\ LET task == tasks[FindIndex(tasks, id)]
           verdict == handleAddLogVerdict(task, cards[id], newLog)
           log == [id |-> clock, date |-> newLog.date, startTime |-> newLog.startTime,
                   endTime |-> newLog.endTime,
                   duration |-> calculateDuration(newLog.startTime, newLog.endTime)]
           updatedTask == withLogs(cards[id], Append(cards[id].logs, log))
       IN  /\ lastOp' = [op |-> "addLog", id |-> id, alert |-> verdict,
                         filled |-> IsFilled(newLog),
                         nonPositive |-> IsFilled(newLog) /\ newLog.endTime <= newLog.startTime,
                         insideShown |-> isTimeRangeOverlap(newLog.startTime, newLog.endTime,
                                                            task.logs)]
           /\ IF verdict = "ok"
              THEN /\ cards' = [cards EXCEPT ![id] = updatedTask]
                   /\ dbQueue' = dbQueue \o UpdateRequests(updatedTask)
                   /\ loading' = UpdateLoading(updatedTask)
                   /\ clock' = clock + 1
              ELSE UNCHANGED <<cards, dbQueue, loading, clock>>
    /\ UNCHANGED <<store, currentDate, tasks, editing, call, ret>>

HandleDeleteLog(id, logId) ==
    /\ id \in DOMAIN cards
    /\ id \notin editing
    /\ logId \in IdsOf(cards[id].logs)
    /\ Len(dbQueue) < MaxQueue
    /\ LET Keeps(log) == log.id # logId
           updatedTask == withLogs(cards[id], SelectSeq(cards[id].logs, Keeps))
       IN  /\ cards' = [cards EXCEPT ![id] = updatedTask]
           /\ dbQueue' = dbQueue \o UpdateRequests(updatedTask)
           /\ loading' = UpdateLoading(updatedTask)
    /\ lastOp' = [op |-> "deleteLog", id |-> id, logId |-> logId]
    /\ UNCHANGED <<store, clock, currentDate, tasks, editing, call, ret>>

----
\* The object store answers the oldest request; the awaiting handler continues

\* try { await request; ... } finally { setLoading(false) }: the flag once the
\* request has settled. A request that succeeded and bumped refreshTrigger is
\* followed by the effect's loadTasks, which sets the flag again.
loadingAfterSettle_NoFinally(failed, reloads) == IF failed THEN loading ELSE reloads

loadingAfterSettle(failed, reloads) == ~failed /\ reloads

\* getAllTasks answers loadTasks: setTasks, then every card takes its task;
\* a card that is no longer rendered loses its state
SettleGetAll ==
    /\ Len(dbQueue) > 0
    /\ Head(dbQueue).op = "getAll"
    /\ tasks' = loadedTasks(store, Head(dbQueue).dateStr)
    /\ cards' = CardsOf(tasks')
    /\ editing' = editing \cap IdsOf(tasks')
    /\ dbQueue' = Tail(dbQueue)
    /\ loading' = loadingAfterSettle(FALSE, FALSE)
    /\ lastOp' = Other
    /\ UNCHANGED <<store, clock, currentDate, call, ret>>

\* store.add answers addTask; handleAddTask bumps refreshTrigger, which reloads
SettleAdd ==
    /\ Len(dbQueue) > 0
    /\ Head(dbQueue).op = "add"
    /\ IF Head(dbQueue).task.id \in DOMAIN store
       THEN /\ dbQueue' = Tail(dbQueue)
            /\ loading' = loadingAfterSettle(TRUE, FALSE)
            /\ UNCHANGED store
       ELSE /\ store' = Put(store, Head(dbQueue).task)
            /\ dbQueue' = Append(Tail(dbQueue), LoadRequest(currentDate))
            /\ loading' = loadingAfterSettle(FALSE, TRUE)
    /\ lastOp' = Other
    /\ UNCHANGED <<clock, currentDate, tasks, cards, editing, call, ret>>

\* store.put answers updateTask; handleUpdateTask bumps refreshTrigger
SettleUpdate ==
    /\ Len(dbQueue) > 0
    /\ Head(dbQueue).op = "update"
    /\ store' = Put(store, WithDefaults(Head(dbQueue).task))
    /\ dbQueue' = Append(Tail(dbQueue), LoadRequest(currentDate))
    /\ loading' = loadingAfterSettle(FALSE, TRUE)
    /\ lastOp' = Other
    /\ UNCHANGED <<clock, currentDate, tasks, cards, editing, call, ret>>

\* store.delete answers deleteTask; deleteTask bumps refreshTrigger
SettleDelete ==
    /\ Len(dbQueue) > 0
    /\ Head(dbQueue).op = "delete"
    /\ store' = Remove(store, Head(dbQueue).id)
    /\ dbQueue' = Append(Tail(dbQueue), LoadRequest(currentDate))
    /\ loading' = loadingAfterSettle(FALSE, TRUE)
    /\ lastOp' = Other
    /\ UNCHANGED <<clock, currentDate, tasks, cards, editing, call, ret>>

\* the puts of batchUpdateTaskOrder; moveTask does not await them
SettleBatch ==
    /\ Len(dbQueue) > 0
    /\ Head(dbQueue).op = "batch"
    /\ store' = PutAll(store, [i \in 1..Len(Head(dbQueue).tasks) |->
                                  WithDefaults(Head(dbQueue).tasks[i])])
    /\ dbQueue' = Tail(dbQueue)
    /\ lastOp' = Other
    /\ UNCHANGED <<clock, currentDate, tasks, cards, loading, editing, call, ret>>

----
\* The specifications of the application

\* the page mounts on an empty database: the effect issues the first load
InitOrder ==
    /\ store = EmptyMap
    /\ clock = 1
    /\ currentDate = 1
    /\ tasks = <<>>
    /\ cards = EmptyMap
    /\ dbQueue = <<LoadRequest(1)>>
    /\ loading = TRUE
    /\ editing = {}
    /\ lastOp = [op |-> "none"]
    /\ call = NoCall
    /\ ret = NoRet

NextOrder ==
    \/ \E isAdHoc \in BOOLEAN, range \in FormRanges :
           HandleAddTask(isAdHoc, range[1], range[2])
    \/ \E id \in 1..MaxClock : DeleteTask(id)
    \/ \E id \in 1..MaxClock : HandleCompletedChange(id)
    \/ \E dragIndex \in 0..MaxClock, hoverIndex \in 0..MaxClock :
           MoveTask(dragIndex, hoverIndex)
    \/ GoToday
    \/ NextDay
    \/ PrevDay
    \/ SettleGetAll
    \/ SettleAdd
    \/ SettleUpdate
    \/ SettleDelete
    \/ SettleBatch

SpecOrder == InitOrder /\ [][NextOrder]_vars

\* the records n earlier additions, completions and reorders can have left:
\* tasks of day 1 with ids 1..n, each completed or not, with any order below n
\* (handleAddTask numbers a task by the incomplete tasks shown when it is added,
\* so deletions, completions and other days leave duplicates and gaps)
StoredTask(id, completed, order) ==
    [addTaskRecord([formTask(1, FALSE, EmptyStr, EmptyStr) EXCEPT !.order = order], id)
        EXCEPT !.completed = completed, !.completedAt = IF completed THEN id ELSE 0]

StoresOfSize(n) ==
    {[id \in 1..n |-> StoredTask(id, f[id][1], f[id][2])] :
        f \in [1..n -> BOOLEAN \X (0..(n - 1))]}

\* the day view has loaded such a database
InitMove ==
    /\ store \in UNION {StoresOfSize(n) : n \in 0..MaxStored}
    /\ clock = MaxStored + 1
    /\ currentDate = 1
    /\ tasks = loadedTasks(store, currentDate)
    /\ cards = CardsOf(tasks)
    /\ dbQueue = <<>>
    /\ loading = FALSE
    /\ editing = {}
    /\ lastOp = [op |-> "none"]
    /\ call = NoCall
    /\ ret = NoRet

NextMove ==
    \/ \E dragIndex \in 0..MaxStored, hoverIndex \in 0..MaxStored :
           MoveTask(dragIndex, hoverIndex)
    \/ GoToday
    \/ SettleBatch
    \/ SettleGetAll

SpecMove == InitMove /\ [][NextMove]_vars

\* the page mounts on a database that holds one task, added on day 1
InitLog ==
    /\ store = Put(EmptyMap, addTaskRecord(formTask(1, FALSE, EmptyStr, EmptyStr), 1))
    /\ clock = 2
    /\ currentDate = 1
    /\ tasks = <<>>
    /\ cards = EmptyMap
    /\ dbQueue = <<LoadRequest(1)>>
    /\ loading = TRUE
    /\ editing = {}
    /\ lastOp = [op |-> "none"]
    /\ call = NoCall
    /\ ret = NoRet

NextLog ==
    \/ \E id \in 1..MaxClock, newLog \in NewLogs : HandleAddLog(id, newLog)
    \/ \E id \in 1..MaxClock, logId \in 1..MaxClock : HandleDeleteLog(id, logId)
    \/ SettleGetAll
    \/ SettleUpdate

SpecLog == InitLog /\ [][NextLog]_vars

\* the most tasks the day view of the completion specification shows
MaxShown == 2

\* the day view has loaded a database of up to MaxShown tasks of day 1
InitComplete ==
    /\ store \in UNION {StoresOfSize(n) : n \in 1..MaxShown}
    /\ clock = MaxShown + 1
    /\ currentDate = 1
    /\ tasks = loadedTasks(store, currentDate)
    /\ cards = CardsOf(tasks)
    /\ dbQueue = <<>>
    /\ loading = FALSE
    /\ editing = {}
    /\ lastOp = [op |-> "none"]
    /\ call = NoCall
    /\ ret = NoRet

\* the log the completion specification enters: the first slot of day 1
FirstSlotLog ==
    [date |-> 1, startTime |-> DayStartMinute, endTime |-> DayStartMinute + SlotMinutes]

NextComplete ==
    \/ \E id \in 1..MaxShown : HandleCompletedChange(id)
    \/ \E id \in 1..MaxShown : HandleAddLog(id, FirstSlotLog)
    \/ \E id \in 1..MaxShown, logId \in 1..MaxLogClock : HandleDeleteLog(id, logId)
    \/ \E dragIndex \in 0..MaxShown, hoverIndex \in 0..MaxShown :
           MoveTask(dragIndex, hoverIndex)
    \/ GoToday
    \/ SettleGetAll
    \/ SettleUpdate
    \/ SettleBatch

SpecComplete == InitComplete /\ [][NextComplete]_vars

----
\* db.ts on its own: the gateway called directly, one call at a time

\* the version passed to indexedDB.open
DbVersion == 4

\* the database found at the first open: none, one of version 3, one of version 4
OldVersions == {0, DbVersion - 1, DbVersion}

\* the largest database of the gateway specification
MaxDbStored == 2

\* Date.now() stops before MaxDbClock for the ids addTask assigns
MaxDbClock == 4

\* the version-4 upgrade: every record is put back with the defaults
upgradeToV4_NoBackfill(st) == st

upgradeToV4(st) == [id \in DOMAIN st |-> WithDefaults(st[id])]

\* initDB.onupgradeneeded, the part that touches records
initDB(st, oldVersion) == IF oldVersion < DbVersion THEN upgradeToV4(st) ELSE st

\* getTasksByDate: the records of the 'by-date' index under the key date, then
\* every record whose range holds the date and was not seen, sorted by order
getTasksByDate(st, date) ==
    LET keys == KeyOrder(DOMAIN st)
        all == [i \in 1..Len(keys) |-> st[keys[i]]]
        OnDate(t) == "date" \in DOMAIN t /\ t.date = date
        byDate == SelectSeq(all, OnDate)
        InRange(t) ==
            /\ StrField(t, "startDate") # EmptyStr
            /\ StrField(t, "endDate") # EmptyStr
            /\ NumGeq(DateGetTime(date), DateGetTime(t.startDate))
            /\ NumLeq(DateGetTime(date), DateGetTime(t.endDate))
            /\ t.id \notin IdsOf(byDate)
    IN  SortByOrder(byDate \o SelectSeq(all, InRange))

\* the cursor over the 'by-date' index bounded by two date strings: by date, then by key
RECURSIVE byDateIndex(_, _, _)
byDateIndex(st, lower, upper) ==
    IF lower > upper THEN <<>>
    ELSE LET keys == KeyOrder(DOMAIN st)
             all == [i \in 1..Len(keys) |-> st[keys[i]]]
             OnDate(t) == "date" \in DOMAIN t /\ t.date = lower
         IN  SelectSeq(all, OnDate) \o byDateIndex(st, lower + 1, upper)

\* getTasksByDateRange: the records whose date lies in the bounds, then every
\* unseen record whose range touches the bounds
getTasksByDateRange(st, startDate, endDate) ==
    LET keys == KeyOrder(DOMAIN st)
        all == [i \in 1..Len(keys) |-> st[keys[i]]]
        byDate == byDateIndex(st, startDate, endDate)
        rangeStart == DateGetTime(startDate)
        rangeEnd == DateGetTime(endDate)
        Touches(t) ==
            /\ StrField(t, "startDate") # EmptyStr
            /\ StrField(t, "endDate") # EmptyStr
            /\ t.id \notin IdsOf(byDate)
            /\ LET taskStart == DateGetTime(t.startDate)
                   taskEnd == DateGetTime(t.endDate)
               IN  \/ NumGeq(taskStart, rangeStart) /\ NumLeq(taskStart, rangeEnd)
                   \/ NumGeq(taskEnd, rangeStart) /\ NumLeq(taskEnd, rangeEnd)
                   \/ NumLeq(taskStart, rangeStart) /\ NumGeq(taskEnd, rangeEnd)
    IN  byDate \o SelectSeq(all, Touches)

batchUpdateTaskOrder_TransactionPerPut(before, batch, completed, failed) ==
    PutAll(before, [i \in 1..completed |-> WithDefaults(batch[i])])

\* batchUpdateTaskOrder: what the object store holds for every other transaction
\* once `completed` puts of the batch have succeeded and the next one has failed
\* or not. All puts go through one readwrite transaction; the onerror handler
\* does not call preventDefault, so a failed put aborts the transaction.
batchUpdateTaskOrder(before, batch, completed, failed) ==
    IF ~failed /\ completed = Len(batch)
    THEN PutAll(before, [i \in 1..Len(batch) |-> WithDefaults(batch[i])])
    ELSE before

\* the promise of a db call: resolved with a list of tasks, or rejected
Resolved(list) == [done |-> TRUE, val |-> [ok |-> TRUE, tasks |-> list]]

Rejected == [done |-> TRUE, val |-> [ok |-> FALSE, tasks |-> <<>>]]

\* the ranges of the records and of the tasks handed to addTask
DbRanges == {<<EmptyStr, EmptyStr>>} \cup {r \in ValidDates \X ValidDates : r[1] <= r[2]}

\* a record as addTask writes it
DbRecord(id, date, isAdHoc, range) ==
    addTaskRecord(formTask(date, isAdHoc, range[1], range[2]), id)

\* the optional properties a record of an older version, or a Task handed to a
\* write, may lack
DroppedFieldSets ==
    {{}, {"startDate", "endDate"}, {"logs", "totalDuration"}, BackfilledFields}

Without(task, dropped) == [f \in DOMAIN task \ dropped |-> task[f]]

\* the databases the first open can find
DbStores(oldVersion) ==
    IF oldVersion = 0 THEN {EmptyMap}
    ELSE LET Choices == [date : ValidDates, isAdHoc : BOOLEAN, range : DbRanges,
                         dropped : IF oldVersion < DbVersion THEN DroppedFieldSets ELSE {{}}]
         IN  UNION {{[id \in 1..n |->
                         Without(DbRecord(id, c[id].date, c[id].isAdHoc, c[id].range),
                                 c[id].dropped)] : c \in [1..n -> Choices]}
                    : n \in 0..MaxDbStored}

\* the lists a caller hands to batchUpdateTaskOrder: stored tasks, renumbered
DbBatches(st) ==
    {<<>>} \cup {<<[st[a] EXCEPT !.order = 0]>> : a \in DOMAIN st}
           \cup {<<[st[p[1]] EXCEPT !.order = 0], [st[p[2]] EXCEPT !.order = 1]>> :
                     p \in {q \in (DOMAIN st) \X (DOMAIN st) : q[1] # q[2]}}

\* the calls a caller can make on a database
DbCalls(st) ==
    [fn : {"getAllTasks"}]
    \cup [fn : {"getTasksByDate"}, date : ValidDates]
    \cup [fn : {"getTasksByDateRange"}, startDate : ValidDates, endDate : ValidDates]
    \cup [fn : {"deleteTask"}, id : DOMAIN st]
    \cup {[fn |-> "updateTask", task |-> Without(st[id], dropped)] :
              id \in DOMAIN st, dropped \in DroppedFieldSets}
    \cup {[fn |-> "addTask", task |-> formTask(date, isAdHoc, range[1], range[2])] :
              date \in ValidDates, isAdHoc \in BOOLEAN, range \in DbRanges}
    \cup {[fn |-> "batchUpdateTaskOrder", tasks |-> batch, completed |-> 0, before |-> st] :
              batch \in DbBatches(st)}

\* the first open of the database has not answered yet
InitDb ==
    /\ call \in [fn : {"initDB"}, oldVersion : OldVersions]
    /\ store \in DbStores(call.oldVersion)
    /\ ret = NoRet
    /\ clock = MaxDbStored + 1
    /\ currentDate = 1
    /\ tasks = <<>>
    /\ cards = EmptyMap
    /\ dbQueue = <<>>
    /\ loading = FALSE
    /\ editing = {}
    /\ lastOp = [op |-> "none"]

\* getDB: the open request succeeds, after the upgrade if there was one
DbOpen ==
    /\ call.fn = "initDB"
    /\ ~ret.done
    /\ store' = initDB(store, call.oldVersion)
    /\ ret' = Resolved(<<>>)
    /\ lastOp' = [op |-> "initDB",
                  legacy |-> {id \in DOMAIN store : ~(BackfilledFields \subseteq DOMAIN store[id])}]
    /\ UNCHANGED <<call, clock, currentDate, tasks, cards, dbQueue, loading, editing>>

\* a caller calls the gateway once the previous promise has settled
DbInvoke ==
    /\ ret.done
    /\ \E c \in DbCalls(store) :
           /\ c.fn = "addTask" =>
                  clock < MaxDbClock /\ Cardinality(DOMAIN store) < MaxDbStored
           /\ call' = c
    /\ ret' = NoRet
    /\ UNCHANGED <<store, clock, currentDate, tasks, cards, dbQueue, loading, editing, lastOp>>

DbPending(fn) == call.fn = fn /\ ~ret.done

\* store.add answers: Date.now() was read inside the promise
DbAddTask ==
    /\ DbPending("addTask")
    /\ LET taskWithDefaults == addTaskRecord(call.task, clock)
       IN  /\ store' = Put(store, taskWithDefaults)
           /\ ret' = Resolved(<<taskWithDefaults>>)
    /\ clock' = clock + 1
    /\ UNCHANGED <<call, currentDate, tasks, cards, dbQueue, loading, editing, lastOp>>

DbUpdateTask ==
    /\ DbPending("updateTask")
    /\ store' = Put(store, WithDefaults(call.task))
    /\ ret' = Resolved(<<>>)
    /\ UNCHANGED <<call, clock, currentDate, tasks, cards, dbQueue, loading, editing, lastOp>>

DbDeleteTask ==
    /\ DbPending("deleteTask")
    /\ store' = Remove(store, call.id)
    /\ ret' = Resolved(<<>>)
    /\ UNCHANGED <<call, clock, currentDate, tasks, cards, dbQueue, loading, editing, lastOp>>

\* one put of batchUpdateTaskOrder answers: completed++, resolve on the last one
DbBatchPut ==
    /\ DbPending("batchUpdateTaskOrder")
    /\ call.completed < Len(call.tasks)
    /\ call' = [call EXCEPT !.completed = @ + 1]
    /\ store' = batchUpdateTaskOrder(call.before, call.tasks, call'.completed, FALSE)
    /\ ret' = IF call'.completed = Len(call.tasks) THEN Resolved(<<>>) ELSE ret
    /\ UNCHANGED <<clock, currentDate, tasks, cards, dbQueue, loading, editing, lastOp>>

\* one put of batchUpdateTaskOrder fails: hasError, reject
DbBatchPutError ==
    /\ DbPending("batchUpdateTaskOrder")
    /\ call.completed < Len(call.tasks)
    /\ store' = batchUpdateTaskOrder(call.before, call.tasks, call.completed, TRUE)
    /\ ret' = Rejected
    /\ UNCHANGED <<call, clock, currentDate, tasks, cards, dbQueue, loading, editing, lastOp>>

DbGetAllTasks ==
    /\ DbPending("getAllTasks")
    /\ ret' = Resolved(getAllTasks(store))
    /\ UNCHANGED <<call, appVars>>

DbGetTasksByDate ==
    /\ DbPending("getTasksByDate")
    /\ ret' = Resolved(getTasksByDate(store, call.date))
    /\ UNCHANGED <<call, appVars>>

\* IDBKeyRange.bound throws when the lower bound is above the upper one
DbGetTasksByDateRange ==
    /\ DbPending("getTasksByDateRange")
    /\ ret' = IF call.startDate > call.endDate THEN Rejected
              ELSE Resolved(getTasksByDateRange(store, call.startDate, call.endDate))
    /\ UNCHANGED <<call, appVars>>

\* the request of a single-request call fails: request.onerror rejects
DbRequestError ==
    /\ call.fn \in {"addTask", "updateTask", "deleteTask", "getAllTasks",
                    "getTasksByDate", "getTasksByDateRange"}
    /\ ~ret.done
    /\ ret' = Rejected
    /\ UNCHANGED <<call, appVars>>

\* the object store answers a request of the pending call
StoreAnswers ==
    \/ DbOpen
    \/ DbAddTask
    \/ DbUpdateTask
    \/ DbDeleteTask
    \/ DbBatchPut
    \/ DbBatchPutError
    \/ DbGetAllTasks
    \/ DbGetTasksByDate
    \/ DbGetTasksByDateRange
    \/ DbRequestError

NextDb == DbInvoke \/ StoreAnswers

SpecDb == InitDb /\ [][NextDb]_vars

\* the object store eventually answers every request
SpecDbFair == SpecDb /\ WF_vars(StoreAnswers)

----
\* page.tsx exportWeeklyReport: the tables of the weekly report.
\* A row is a WeeklyTaskRecord; its texts are encoded as follows.

\* '无任务记录', the name of the placeholder row of a day without tasks
NoTaskTitle == "no tasks"

\* '无记录', the start and end time of the row of a task without logs
NoRecord == 0 - 2

\* `${Math.floor(d / 60)}小时${d % 60}分钟`
DurationText(d) == [text |-> "h:m", hours |-> d \div 60, minutes |-> d % 60]

\* '0分钟', the duration of the row of a task without logs
ZeroMinutes == [text |-> "m", hours |-> 0, minutes |-> 0]

\* '', the duration and total of the placeholder row
EmptyText == [text |-> "", hours |-> 0, minutes |-> 0]

\* the status column: '已完成', '进行中' or ''
StatusText(completed) == IF completed THEN "done" ELSE "open"

\* the dates of the week of the report, Monday first
WeekDates == ValidDates

taskRows_NoPlaceholder(task) ==
    [k \in 1..Len(task.logs) |->
        [name |-> task.title,
         startTime |-> task.logs[k].startTime,
         endTime |-> task.logs[k].endTime,
         duration |-> DurationText(task.logs[k].duration),
         total |-> DurationText(task.totalDuration),
         status |-> StatusText(task.completed)]]

\* the body of dailyTasks.forEach: the rows one task contributes to a day
taskRows(task) ==
    IF Len(task.logs) > 0
    THEN [k \in 1..Len(task.logs) |->
             [name |-> task.title,
              startTime |-> task.logs[k].startTime,
              endTime |-> task.logs[k].endTime,
              duration |-> DurationText(task.logs[k].duration),
              total |-> DurationText(task.totalDuration),
              status |-> StatusText(task.completed)]]
    ELSE <<[name |-> task.title,
            startTime |-> NoRecord,
            endTime |-> NoRecord,
            duration |-> ZeroMinutes,
            total |-> DurationText(task.totalDuration),
            status |-> StatusText(task.completed)]>>

RECURSIVE RowsOf(_)
RowsOf(dailyTasks) ==
    IF Len(dailyTasks) = 0 THEN <<>>
    ELSE taskRows(Head(dailyTasks)) \o RowsOf(Tail(dailyTasks))

\* the row pushed when a day has no rows
NoTaskRow ==
    [name |-> NoTaskTitle, startTime |-> EmptyTime, endTime |-> EmptyTime,
     duration |-> EmptyText, total |-> EmptyText, status |-> ""]

\* one pass of the loop over the days: weeklyData[days[i]]
weeklyRows(allTasks, dateStr) ==
    LET Appears(task) == shouldTaskAppearOnDate(task, dateStr)
        rows == RowsOf(SelectSeq(allTasks, Appears))
    IN  IF Len(rows) = 0 THEN <<NoTaskRow>> ELSE rows

\* the minutes the reducer of '总工作时间' adds for a row: its duration when
\* the text matches /(\d+)小时(\d+)分钟/
MatchedMinutes(row) ==
    IF row.duration.text = "h:m" THEN row.duration.hours * 60 + row.duration.minutes ELSE 0

RECURSIVE SumMinutes(_)
SumMinutes(rows) ==
    IF Len(rows) = 0 THEN 0 ELSE MatchedMinutes(Head(rows)) + SumMinutes(Tail(rows))

\* one element of summaryData: '任务数量' and '总工作时间' of a day
summaryRow(rows) ==
    LET Counted(row) == row.name # NoTaskTitle
    IN  [count |-> Len(SelectSeq(rows, Counted)), minutes |-> SumMinutes(rows)]

\* weeklyData and summaryData as exportWeeklyReport builds them from allTasks
weeklyReport(allTasks) ==
    LET weeklyData == [d \in WeekDates |-> weeklyRows(allTasks, d)]
    IN  [weeklyData |-> weeklyData,
         summaryData |-> [d \in WeekDates |-> summaryRow(weeklyData[d])]]

\* the most logs a task of the report specification has
MaxReportLogs == 2

\* the title the report specification gives to its tasks
ReportTitle == "a"

\* n logs of one date, in consecutive slots
ReportLogs(date, n) ==
    [k \in 1..n |->
        [id |-> k, date |-> date,
         startTime |-> DayStartMinute + (k - 1) * SlotMinutes,
         endTime |-> DayStartMinute + k * SlotMinutes,
         duration |-> SlotMinutes]]

\* what the report specification chooses for a task: its date, whether it is ad
\* hoc, no range or the whole month, and no log, one log or MaxReportLogs
ReportChoices ==
    [date : ValidDates, isAdHoc : BOOLEAN, range : FormRanges, logs : {0, 1, MaxReportLogs}]

\* the stored task of a choice
ReportRecord(id, c) ==
    [title |-> ReportTitle] @@
    [DbRecord(id, c.date, c.isAdHoc, c.range)
        EXCEPT !.logs = ReportLogs(c.date, c.logs),
               !.totalDuration = c.logs * SlotMinutes]

\* the handler is called on a database of up to MaxDbStored such tasks
InitReport ==
    /\ \E n \in 0..MaxDbStored :
           \E c \in [1..n -> ReportChoices] :
               store = [id \in 1..n |-> ReportRecord(id, c[id])]
    /\ clock = MaxDbStored + 1
    /\ currentDate = 1
    /\ tasks = <<>>
    /\ cards = EmptyMap
    /\ dbQueue = <<>>
    /\ loading = FALSE
    /\ editing = {}
    /\ lastOp = [op |-> "none"]
    /\ call = [fn |-> "exportWeeklyReport"]
    /\ ret = NoRet

ApplyReport ==
    /\ call.fn = "exportWeeklyReport"
    /\ ~ret.done
    /\ ret' = [done |-> TRUE, val |-> weeklyReport(getAllTasks(store))]
    /\ UNCHANGED <<call, appVars>>

SpecReport == InitReport /\ [][ApplyReport]_vars

----
\* page.tsx: requests that fail, the export handler and the loading flag

\* the handlers that call setLoading(true) before their request
LoadingOps == {"getAll", "add", "update", "delete", "export"}

\* the object store rejects the oldest request (the transaction fails): the
\* awaiting handler logs the error in its catch, its finally clears the flag,
\* refreshTrigger is not bumped and nothing is issued again. A rejected batch
\* has no handler: moveTask does not await it.
RequestFails ==
    /\ Len(dbQueue) > 0
    /\ dbQueue' = Tail(dbQueue)
    /\ loading' = IF Head(dbQueue).op \in LoadingOps
                  THEN loadingAfterSettle(TRUE, FALSE)
                  ELSE loading
    /\ lastOp' = [op |-> "rejected", request |-> Head(dbQueue)]
    /\ UNCHANGED <<store, clock, currentDate, tasks, cards, editing, call, ret>>

\* exportWeeklyReport up to its await of getAllTasks
ExportWeeklyReport ==
    /\ Len(dbQueue) < MaxQueue
    /\ dbQueue' = Append(dbQueue, [op |-> "export"])
    /\ loading' = TRUE
    /\ lastOp' = Other
    /\ UNCHANGED <<store, clock, currentDate, tasks, cards, editing, call, ret>>

\* getAllTasks answers exportWeeklyReport: the handler builds weeklyData and
\* summaryData, then evaluates summaryDataForExport, which is declared nowhere:
\* the ReferenceError is caught, alert('导出周报失败，请重试'), and the finally
\* clears the flag
SettleExport ==
    /\ Len(dbQueue) > 0
    /\ Head(dbQueue).op = "export"
    /\ dbQueue' = Tail(dbQueue)
    /\ loading' = loadingAfterSettle(TRUE, FALSE)
    /\ lastOp' = [op |-> "export", alert |-> "export failed"]
    /\ UNCHANGED <<store, clock, currentDate, tasks, cards, editing, call, ret>>

NextLoading ==
    \/ \E isAdHoc \in BOOLEAN : HandleAddTask(isAdHoc, EmptyStr, EmptyStr)
    \/ \E id \in 1..MaxClock : DeleteTask(id)
    \/ \E id \in 1..MaxClock : HandleCompletedChange(id)
    \/ GoToday
    \/ NextDay
    \/ PrevDay
    \/ ExportWeeklyReport
    \/ SettleGetAll
    \/ SettleAdd
    \/ SettleUpdate
    \/ SettleDelete
    \/ SettleExport
    \/ RequestFails

\* the page mounts on an empty database; any request may fail
SpecLoading == InitOrder /\ [][NextLoading]_vars

----
\* db.ts getDB: the handle promise of the process.
\* call stands for the module variable dbPromise: fn is "none" while it is null
\* and "initDB" once initDB has made the open request; opens counts the
\* invocations of initDB. ret is the outcome of the open request. dbQueue holds
\* the db methods that wait at their `await this.getDB()`.

getDB_CacheAfterOpen(dbPromise) ==
    IF dbPromise.fn # "none" /\ ret.done
    THEN dbPromise
    ELSE [dbPromise EXCEPT !.fn = "initDB", !.opens = @ + 1]

\* if (!dbPromise) { dbPromise = initDB(); } return dbPromise;
\* no await separates the test from the assignment
getDB(dbPromise) ==
    IF dbPromise.fn = "none"
    THEN [dbPromise EXCEPT !.fn = "initDB", !.opens = @ + 1]
    ELSE dbPromise

\* the methods of db that start with `await this.getDB()`
DbMethods ==
    {"addTask", "getTasksByDate", "getTasksByDateRange", "updateTask", "deleteTask",
     "batchUpdateTaskOrder", "getAllTasks"}

\* the module has been loaded, nothing has called the gateway yet; the database
\* does not exist, or holds nothing, or holds one task of some version
InitGetDB ==
    /\ call \in [fn : {"none"}, oldVersion : OldVersions, opens : {0}]
    /\ store \in IF call.oldVersion = 0 THEN {EmptyMap}
                 ELSE {EmptyMap} \cup
                      {[id \in {1} |->
                           Without(DbRecord(1, date, FALSE, <<EmptyStr, EmptyStr>>), dropped)] :
                          date \in ValidDates,
                          dropped \in IF call.oldVersion < DbVersion
                                      THEN DroppedFieldSets ELSE {{}}}
    /\ ret = NoRet
    /\ clock = MaxDbStored + 1
    /\ currentDate = 1
    /\ tasks = <<>>
    /\ cards = EmptyMap
    /\ dbQueue = <<>>
    /\ loading = FALSE
    /\ editing = {}
    /\ lastOp = [op |-> "none"]

\* a method of db is called and runs up to its await of getDB
DbMethodCalled(fn) ==
    /\ Len(dbQueue) < MaxQueue
    /\ call' = getDB(call)
    /\ dbQueue' = Append(dbQueue, [op |-> fn])
    /\ lastOp' = [op |-> "getDB", fn |-> fn]
    /\ UNCHANGED <<store, clock, currentDate, tasks, cards, loading, editing, ret>>

\* request.onerror of the open request: the handle promise rejects
DbOpenFails ==
    /\ call.fn = "initDB"
    /\ ~ret.done
    /\ ret' = Rejected
    /\ lastOp' = [op |-> "initDB", legacy |-> {}]
    /\ UNCHANGED <<call, store, clock, currentDate, tasks, cards, dbQueue, loading, editing>>

\* the handle promise has settled: the method that has waited longest goes on
\* with the handle, or rejects with the error of the open
DbMethodContinues ==
    /\ ret.done
    /\ Len(dbQueue) > 0
    /\ dbQueue' = Tail(dbQueue)
    /\ lastOp' = [op |-> "handle", fn |-> Head(dbQueue).op, ok |-> ret.val.ok]
    /\ UNCHANGED <<call, store, clock, currentDate, tasks, cards, loading, editing, ret>>

NextGetDB ==
    \/ \E fn \in DbMethods : DbMethodCalled(fn)
    \/ DbOpen
    \/ DbOpenFails
    \/ DbMethodContinues

SpecGetDB == InitGetDB /\ [][NextGetDB]_vars

----
\* The specification of additions to a day that already has a task

\* the day view has loaded a database of one task of day 1; earlier additions
\* and deletions have left it with any order below MaxStored
InitAdd ==
    /\ store \in {[id \in {1} |-> StoredTask(1, completed, order)] :
                     completed \in BOOLEAN, order \in 0..(MaxStored - 1)}
    /\ clock = 2
    /\ currentDate = 1
    /\ tasks = loadedTasks(store, currentDate)
    /\ cards = CardsOf(tasks)
    /\ dbQueue = <<>>
    /\ loading = FALSE
    /\ editing = {}
    /\ lastOp = [op |-> "none"]
    /\ call = NoCall
    /\ ret = NoRet

NextAdd ==
    \/ \E isAdHoc \in BOOLEAN, range \in FormRanges :
           HandleAddTask(isAdHoc, range[1], range[2])
    \/ \E id \in 1..MaxClock : DeleteTask(id)
    \/ \E id \in 1..MaxClock : HandleCompletedChange(id)
    \/ GoToday
    \/ SettleGetAll
    \/ SettleAdd
    \/ SettleUpdate
    \/ SettleDelete

SpecAdd == InitAdd /\ [][NextAdd]_vars

----
\* Navigation whose loads answer in any order

\* every loadTasks awaits its own getAllTasks, which reads in a read-only
\* transaction of its own; read-only transactions run side by side, so among
\* loads that are in flight together a later one can answer before an earlier
\* one. loadTasks compares neither dates nor request numbers before setTasks.
SettleGetAllOutOfOrder(i) ==
    /\ i \in 2..Len(dbQueue)
    /\ \A j \in 1..i : dbQueue[j].op = "getAll"
    /\ tasks' = loadedTasks(store, dbQueue[i].dateStr)
    /\ cards' = CardsOf(tasks')
    /\ editing' = editing \cap IdsOf(tasks')
    /\ dbQueue' = RemoveAt(dbQueue, i)
    /\ loading' = loadingAfterSettle(FALSE, FALSE)
    /\ lastOp' = Other
    /\ UNCHANGED <<store, clock, currentDate, call, ret>>

NextNav ==
    \/ NextDay
    \/ PrevDay
    \/ GoToday
    \/ SettleGetAll
    \/ \E i \in 1..MaxQueue : SettleGetAllOutOfOrder(i)

\* the day view has loaded a database of tasks of day 1; the user navigates
SpecNav == InitComplete /\ [][NextNav]_vars

----
\* TaskCard.tsx: the edit mode of a card

\* handleDoubleClick: setIsEditing(true)
HandleDoubleClick(id) ==
    /\ id \in DOMAIN cards
    /\ editing' = editing \cup {id}
    /\ lastOp' = Other
    /\ UNCHANGED <<store, clock, currentDate, tasks, cards, dbQueue, loading, call, ret>>

\* handleAdHocChange: the checkbox of the edit form writes into localTask
HandleAdHocChange(id) ==
    /\ id \in editing
    /\ cards' = [cards EXCEPT ![id].isAdHoc = ~cards[id].isAdHoc]
    /\ lastOp' = Other
    /\ UNCHANGED <<store, clock, currentDate, tasks, dbQueue, loading, editing, call, ret>>

\* the cancel button: onClick={() => setIsEditing(false)}, and nothing else
CancelEdit(id) ==
    /\ id \in editing
    /\ editing' = editing \ {id}
    /\ lastOp' = [op |-> "cancelEdit", id |-> id]
    /\ UNCHANGED <<store, clock, currentDate, tasks, cards, dbQueue, loading, call, ret>>

\* handleSave, from the save button or a mousedown outside the card
HandleSave(id) ==
    /\ id \in editing
    /\ Len(dbQueue) < MaxQueue
    /\ dbQueue' = dbQueue \o UpdateRequests(cards[id])
    /\ loading' = UpdateLoading(cards[id])
    /\ editing' = editing \ {id}
    /\ lastOp' = Other
    /\ UNCHANGED <<store, clock, currentDate, tasks, cards, call, ret>>

NextEdit ==
    \/ \E id \in 1..MaxShown : HandleDoubleClick(id)
    \/ \E id \in 1..MaxShown : HandleAdHocChange(id)
    \/ \E id \in 1..MaxShown : CancelEdit(id)
    \/ \E id \in 1..MaxShown : HandleSave(id)
    \/ \E id \in 1..MaxShown : HandleCompletedChange(id)
    \/ SettleUpdate
    \/ SettleGetAll

\* the day view has loaded a database of tasks of day 1; cards are edited
SpecEdit == InitComplete /\ [][NextEdit]_vars

----
\* TaskForm.tsx: the dates of the form

\* the hours the model enters as estimatedHours: none, one working day, two
EstimatedHours == {0, 8, 16}

\* Math.ceil(estimatedHours / 8)
requiredDays(estimatedHours) == (estimatedHours + 7) \div 8

\* the effect on [deadline, estimatedHours]: with both set, startDate becomes
\* the deadline moved back by requiredDays - 1 days and endDate the deadline;
\* otherwise the two states keep their values (in a time zone where the local
\* date of UTC midnight is the date itself)
deadlineRange(deadline, estimatedHours, startDate, endDate) ==
    IF deadline # EmptyStr /\ estimatedHours # 0
    THEN <<deadline - requiredDays(estimatedHours) + 1, deadline>>
    ELSE <<startDate, endDate>>

\* what a date input of the form can hold
FormDateInputs == ValidDates \cup {EmptyStr}

\* the states of the form the model enters: the deadline lies late enough in
\* the month for the start date the effect computes
FormInputs ==
    {i \in [deadline : FormDateInputs, estimatedHours : EstimatedHours,
            startDate : FormDateInputs, endDate : FormDateInputs] :
        i.deadline = EmptyStr \/ requiredDays(i.estimatedHours) <= i.deadline}

\* the startDate and endDate of a submitted form: the two date inputs as typed,
\* or as the effect has set them after the last change of deadline or hours
FormDates ==
    {deadlineRange(i.deadline, i.estimatedHours, i.startDate, i.endDate) : i \in FormInputs}
    \cup (FormDateInputs \X FormDateInputs)

NextForm ==
    \/ \E isAdHoc \in BOOLEAN, range \in FormDates :
           HandleAddTask(isAdHoc, range[1], range[2])
    \/ NextDay
    \/ PrevDay
    \/ SettleAdd
    \/ SettleGetAll

\* the page mounts on an empty database; tasks are created through the form
SpecForm == InitOrder /\ [][NextForm]_vars

----
\* C1: a task that is not ad hoc and has a valid startDate and endDate appears
\* on a valid date d exactly when startDate <= d <= endDate, both bounds
\* included and whatever task.date is.
C1_RangeInclusive ==
    (/\ ret.done
     /\ ~call.task.isAdHoc
     /\ call.task.startDate \in ValidDates
     /\ call.task.endDate \in ValidDates
     /\ call.dateStr \in ValidDates)
    => (ret.val <=> (call.task.startDate <= call.dateStr /\ call.dateStr <= call.task.endDate))

\* the range task appears on its last day although task.date is another day
C1_Witness ==
    /\ ret.done
    /\ ret.val
    /\ ~call.task.isAdHoc
    /\ call.task.startDate \in ValidDates
    /\ call.task.endDate \in ValidDates
    /\ call.task.startDate < call.task.endDate
    /\ call.dateStr = call.task.endDate
    /\ call.task.date # call.dateStr

\* C2: an ad hoc task appears on d exactly when d equals task.date, whatever
\* its startDate and endDate are.
C2_AdHocExact ==
    (ret.done /\ call.task.isAdHoc) => (ret.val <=> (call.dateStr = call.task.date))

\* an ad hoc task is hidden on a day inside its range that is not its date
C2_Witness ==
    /\ ret.done
    /\ ~ret.val
    /\ call.task.isAdHoc
    /\ call.task.startDate \in ValidDates
    /\ call.task.endDate \in ValidDates
    /\ call.task.startDate <= call.dateStr
    /\ call.dateStr <= call.task.endDate
    /\ call.task.date # call.dateStr

\* C3: for a proposed interval and existing intervals of positive length,
\* isTimeRangeOverlap is true exactly when the proposal intersects one of them
\* as half-open intervals (s1 < e2 and s2 < e1); touching endpoints never count.
C3_HalfOpenOverlap ==
    (/\ ret.done
     /\ call.newStart < call.newEnd
     /\ \A i \in 1..Len(call.existingLogs) :
            call.existingLogs[i].startTime < call.existingLogs[i].endTime)
    => (ret.val <=> \E i \in 1..Len(call.existingLogs) :
                        /\ call.newStart < call.existingLogs[i].endTime
                        /\ call.existingLogs[i].startTime < call.newEnd)

\* the proposal only touches the existing intervals, one on each side, and passes
C3_Witness ==
    /\ ret.done
    /\ ~ret.val
    /\ call.newStart < call.newEnd
    /\ Len(call.existingLogs) = 2
    /\ call.existingLogs[1].startTime < call.existingLogs[1].endTime
    /\ call.existingLogs[1].endTime = call.newStart
    /\ call.existingLogs[2].startTime = call.newEnd
    /\ call.existingLogs[2].startTime < call.existingLogs[2].endTime

----
\* Predicates shared by the claims about work logs and ordering

\* two logs of one date whose half-open intervals intersect
LogsIntersect(a, b) ==
    /\ a.date = b.date
    /\ a.startTime < b.endTime
    /\ b.startTime < a.endTime

NoOverlapIn(logs) ==
    \A i \in 1..Len(logs), j \in 1..Len(logs) :
        (logs[i].id # logs[j].id) => ~LogsIntersect(logs[i], logs[j])

TotalMatches(task) == task.totalDuration = SumDuration(task.logs)

IdSeq(list) == [i \in 1..Len(list) |-> list[i].id]

CompletedOf(list) == SelectSeq(list, LAMBDA t : t.completed)

\* the sequence with the element at 0-based index from removed and reinserted at to
Reinserted(list, from, to) == InsertAt(RemoveAt(list, from + 1), to + 1, list[from + 1])

\* C4: whatever logs are added and deleted, no two distinct logs of a task that
\* lie on the same date have intersecting half-open intervals, in the card and
\* in the stored record.
C4_NoOverlappingLogs ==
    /\ \A id \in DOMAIN cards : NoOverlapIn(cards[id].logs)
    /\ \A id \in DOMAIN store : NoOverlapIn(store[id].logs)

\* C5: a proposed log whose end is not after its start gets the duration alert,
\* also when it lies inside an existing log, and the step changes neither the
\* card, nor the list, nor the store, nor the requests in flight (no onUpdate).
C5_NonPositiveRejected ==
    [][(lastOp'.op = "addLog" /\ lastOp'.nonPositive)
       => (/\ lastOp'.alert = "duration"
           /\ UNCHANGED <<cards, tasks, store, dbQueue, clock>>)]_vars

\* a proposal of no positive length that the overlap test flags against the logs
\* the task prop shows: the duration alert is what was raised
C5_Witness ==
    /\ lastOp.op = "addLog"
    /\ lastOp.alert = "duration"
    /\ lastOp.nonPositive
    /\ lastOp.insideShown
    /\ Len(cards[lastOp.id].logs) > 0

\* C6: after any additions and deletions of logs, totalDuration is the sum of
\* the durations of the remaining logs (0 when none remain), in the card, in
\* every record handed to updateTask and in the store.
C6_TotalIsSum ==
    /\ \A id \in DOMAIN cards : TotalMatches(cards[id])
    /\ \A i \in 1..Len(dbQueue) : dbQueue[i].op = "update" => TotalMatches(dbQueue[i].task)
    /\ \A id \in DOMAIN store : TotalMatches(store[id])

\* a log was deleted and another remains: the total is the remaining duration
C6_Witness ==
    /\ lastOp.op = "deleteLog"
    /\ Len(cards[lastOp.id].logs) = 1
    /\ cards[lastOp.id].totalDuration = cards[lastOp.id].logs[1].duration
    /\ cards[lastOp.id].totalDuration > 0
    /\ Len(dbQueue) > 0
    /\ dbQueue[Len(dbQueue)].op = "update"
    /\ dbQueue[Len(dbQueue)].task.totalDuration = cards[lastOp.id].totalDuration

\* C7: a moveTask that is not a no-op leaves the incomplete tasks of the list
\* with the orders 0..n-1, each once, and leaves the completed tasks in their
\* relative order with their records (order included) unchanged.
C7_ContiguousOrder ==
    [][(lastOp'.op = "moveTask" /\ ~lastOp'.noop)
       => LET incomplete == SelectSeq(tasks', IsIncomplete)
          IN  /\ {incomplete[i].order : i \in 1..Len(incomplete)} = 0..(Len(incomplete) - 1)
              /\ \A i \in 1..Len(incomplete), j \in 1..Len(incomplete) :
                     incomplete[i].order = incomplete[j].order => i = j
              /\ CompletedOf(tasks') = CompletedOf(tasks)]_vars

\* two incomplete tasks were swapped in a list that also holds a completed task
C7_Witness ==
    /\ lastOp.op = "moveTask"
    /\ ~lastOp.noop
    /\ Len(CompletedOf(tasks)) = 1
    /\ CompletedOf(tasks)[1].order = 2
    /\ Len(SelectSeq(tasks, IsIncomplete)) = 2
    /\ SelectSeq(tasks, IsIncomplete)[1].id > SelectSeq(tasks, IsIncomplete)[2].id
    /\ SelectSeq(tasks, IsIncomplete)[1].order = 0
    /\ SelectSeq(tasks, IsIncomplete)[2].order = 1

\* C8: with both indices taken from the displayed (order-sorted) incomplete list,
\* moveTask leaves the displayed incomplete sequence equal to the previous one
\* with the element at fromIndex removed and reinserted at toIndex.
C8_DisplayedReinserted ==
    [][\A fromIndex \in 0..MaxStored, toIndex \in 0..MaxStored :
           (/\ MoveTask(fromIndex, toIndex)
            /\ RefersToIncomplete(tasks, fromIndex)
            /\ RefersToIncomplete(tasks, toIndex))
           => IdSeq(incompleteTasks(tasks'))
                  = IdSeq(Reinserted(incompleteTasks(tasks), fromIndex, toIndex))]_vars

\* C9: for every date, no two incomplete stored tasks visible on it share an order.
C9_UniqueOrderPerDay ==
    \A d \in ValidDates : \A a \in DOMAIN store, b \in DOMAIN store :
        (/\ a # b
         /\ ~store[a].completed
         /\ ~store[b].completed
         /\ shouldTaskAppearOnDate(store[a], d)
         /\ shouldTaskAppearOnDate(store[b], d))
        => store[a].order # store[b].order

\* C10: a moveTask whose dragIndex or hoverIndex names no incomplete task of the
\* list returns the list as it was and issues no request to the store.
C10_StaleIndexNoOp ==
    [][\A dragIndex \in 0..MaxStored, hoverIndex \in 0..MaxStored :
           (/\ MoveTask(dragIndex, hoverIndex)
            /\ (~RefersToIncomplete(tasks, dragIndex) \/ ~RefersToIncomplete(tasks, hoverIndex)))
           => UNCHANGED <<tasks, cards, store, dbQueue>>]_vars

\* a drag that started on a valid card hovers over an index past the end
C10_Witness ==
    /\ lastOp.op = "moveTask"
    /\ lastOp.noop
    /\ lastOp.dragOk
    /\ ~lastOp.hoverOk
    /\ Len(SelectSeq(tasks, IsIncomplete)) >= 2
    /\ dbQueue = <<>>

\* C16: when dateStr or a date field the resolver consults (task.date in the ad
\* hoc and the fallback branch, startDate and endDate in the range branch) is
\* not a well-formed calendar date, shouldTaskAppearOnDate returns false.
C16_MalformedFailsClosed ==
    (/\ ret.done
     /\ call.fn = "shouldTaskAppearOnDate"
     /\ LET task == call.task
            inRange == ~task.isAdHoc /\ task.startDate # EmptyStr /\ task.endDate # EmptyStr
        IN  \/ call.dateStr \notin ValidDates
            \/ inRange /\ (task.startDate \notin ValidDates \/ task.endDate \notin ValidDates)
            \/ ~inRange /\ task.date \notin ValidDates)
    => ~ret.val

\* the ids of the stored tasks that the resolver shows on one of the dates
OccurringIds(st, dates) ==
    {id \in DOMAIN st : \E d \in dates : shouldTaskAppearOnDate(st[id], d)}

\* C11: once batchUpdateTaskOrder has settled, resolved or rejected after a put
\* failed, the store holds the new order for every task of the batch or the
\* previous order for every task of the batch.
C11_BatchAtomic ==
    (call.fn = "batchUpdateTaskOrder" /\ ret.done)
    => LET batch == call.tasks
       IN  \/ \A i \in 1..Len(batch) : store[batch[i].id].order = batch[i].order
           \/ \A i \in 1..Len(batch) : store[batch[i].id].order = call.before[batch[i].id].order

\* the second of two puts failed, and both tasks were to change their order
C11_Witness ==
    /\ call.fn = "batchUpdateTaskOrder"
    /\ ret.done
    /\ ~ret.val.ok
    /\ Len(call.tasks) = 2
    /\ call.completed = 1
    /\ \A i \in 1..2 : call.before[call.tasks[i].id].order # call.tasks[i].order
    /\ \A i \in 1..2 : store[call.tasks[i].id].order # call.tasks[i].order

\* C12: getTasksByDate(d) returns exactly the stored tasks that
\* shouldTaskAppearOnDate shows on d.
C12_ByDateAgreesWithResolver ==
    (call.fn = "getTasksByDate" /\ ret.done /\ ret.val.ok)
    => IdsOf(ret.val.tasks) = OccurringIds(store, {call.date})

\* C13: for s <= e, getTasksByDateRange(s, e) returns exactly the stored tasks
\* that shouldTaskAppearOnDate shows on a date of [s, e], each once.
C13_ByRangeAgreesWithResolver ==
    (call.fn = "getTasksByDateRange" /\ ret.done /\ ret.val.ok)
    => /\ IdsOf(ret.val.tasks) = OccurringIds(store, call.startDate..call.endDate)
       /\ Cardinality(IdsOf(ret.val.tasks)) = Len(ret.val.tasks)

\* C17: every task a read path returns (getAllTasks, getTasksByDate,
\* getTasksByDateRange) has logs as a list, totalDuration as a number and
\* startDate and endDate as strings, the task's date where they were missing.
C17_ReadsAreBackfilled ==
    (/\ call.fn \in {"getAllTasks", "getTasksByDate", "getTasksByDateRange"}
     /\ ret.done
     /\ ret.val.ok)
    => \A i \in 1..Len(ret.val.tasks) :
           LET t == ret.val.tasks[i]
           IN  /\ BackfilledFields \subseteq DOMAIN t
               /\ Len(t.logs) >= 0
               /\ t.totalDuration \in Nat
               /\ t.startDate \in DateStrs
               /\ t.endDate \in DateStrs
               /\ t.date # EmptyStr => (t.startDate # EmptyStr /\ t.endDate # EmptyStr)

\* getTasksByDate returns a record that lacked properties before the upgrade
C17_Witness ==
    /\ call.fn = "getTasksByDate"
    /\ ret.done
    /\ ret.val.ok
    /\ lastOp.op = "initDB"
    /\ \E i \in 1..Len(ret.val.tasks) :
           /\ ret.val.tasks[i].id \in lastOp.legacy
           /\ ret.val.tasks[i].logs = <<>>
           /\ ret.val.tasks[i].startDate = ret.val.tasks[i].date

\* a write or the upgrade keeps every property of a record that holds a value
Preserved(task, rec) ==
    /\ \A f \in DOMAIN task \ BackfilledFields : rec[f] = task[f]
    /\ StrField(task, "startDate") # EmptyStr => rec.startDate = task.startDate
    /\ StrField(task, "endDate") # EmptyStr => rec.endDate = task.endDate
    /\ "logs" \in DOMAIN task => rec.logs = task.logs
    /\ "totalDuration" \in DOMAIN task => rec.totalDuration = task.totalDuration

\* C18: the backfill of the version-4 upgrade and of every put is idempotent:
\* applied again to the record it produced it yields that record, and it leaves
\* every property that holds a value as it is.
C18_BackfillIdempotent ==
    [][/\ DbOpen => \A id \in DOMAIN store :
                        /\ Preserved(store[id], store'[id])
                        /\ WithDefaults(store'[id]) = store'[id]
       /\ DbUpdateTask => /\ Preserved(call.task, store'[call.task.id])
                          /\ WithDefaults(store'[call.task.id]) = store'[call.task.id]
       /\ (DbBatchPut /\ ret'.done)
              => \A i \in 1..Len(call.tasks) :
                     /\ Preserved(call.tasks[i], store'[call.tasks[i].id])
                     /\ WithDefaults(store'[call.tasks[i].id]) = store'[call.tasks[i].id]]_vars

\* a record the upgrade had to backfill, with a range that is not its date, was
\* written back whole by updateTask and the store holds it unchanged
C18_Witness ==
    /\ call.fn = "updateTask"
    /\ ret.done
    /\ ret.val.ok
    /\ lastOp.op = "initDB"
    /\ call.task.id \in lastOp.legacy
    /\ BackfilledFields \subseteq DOMAIN call.task
    /\ call.task.startDate # call.task.date
    /\ store[call.task.id] = call.task

\* C20: the promise of every db call eventually resolves or rejects, provided
\* the object store answers every request.
C20_EveryCallSettles ==
    (call.fn \in {"addTask", "updateTask", "deleteTask", "getAllTasks", "getTasksByDate",
                  "getTasksByDateRange", "batchUpdateTaskOrder"} /\ ~ret.done)
    ~> ret.done

\* an id that handleAddTask has used, that no pending add carries and that the
\* store does not hold: its record was added and deleteTask has resolved for it
WasDeleted(id) ==
    /\ id < clock
    /\ id \notin DOMAIN store
    /\ \A i \in 1..Len(dbQueue) : dbQueue[i].op = "add" => dbQueue[i].task.id # id

\* C14: once deleteTask(id) has resolved, the store never again holds a record
\* with that id, whatever reorder and update requests the in-memory list issues.
C14_DeletedStaysDeleted ==
    [][\A id \in 1..MaxClock : WasDeleted(id) => id \notin DOMAIN store']_vars

\* the ids a write request in flight targets
WriteTargets(request) ==
    CASE request.op = "update" -> {request.task.id}
      [] request.op = "batch" -> IdsOf(request.tasks)
      [] request.op = "delete" -> {request.id}
      [] OTHER -> {}

\* C15: no two write requests (updateTask, batchUpdateTaskOrder, deleteTask)
\* that target the same record are in flight at once.
C15_WritesSerialised ==
    \A i \in 1..Len(dbQueue), j \in 1..Len(dbQueue) :
        i < j => WriteTargets(dbQueue[i]) \cap WriteTargets(dbQueue[j]) = {}

\* C19: in every persisted record completedAt is set exactly when completed is true.
C19_CompletedAtIffCompleted ==
    \A id \in DOMAIN store : (store[id].completedAt # 0) <=> store[id].completed

\* a task was ticked and unticked before the day was reloaded: the first update
\* has stamped the stored record, the second one is still in flight
C19_Witness ==
    \E id \in DOMAIN store :
        /\ store[id].completed
        /\ store[id].completedAt > MaxShown
        /\ \E i \in 1..Len(dbQueue) :
               /\ dbQueue[i].op = "update"
               /\ dbQueue[i].task.id = id
               /\ ~dbQueue[i].task.completed
               /\ dbQueue[i].task.completedAt = 0

\* the rows the claim gives a day: one per log of every task occurring on it,
\* one for a task without logs
RECURSIVE ClaimedRows(_, _)
ClaimedRows(st, ids) ==
    IF ids = {} THEN 0
    ELSE LET id == CHOOSE x \in ids : TRUE
             n == Len(st[id].logs)
         IN  (IF n > 1 THEN n ELSE 1) + ClaimedRows(st, ids \ {id})

C23_CountsDistinctTasks ==
    (ret.done /\ call.fn = "exportWeeklyReport") =>
        \A d \in WeekDates :
            ret.val.summaryData[d].count = Cardinality(OccurringIds(store, {d}))

\* every request of a handler that sets the loading flag has settled
AllSettled(queue) == \A i \in 1..Len(queue) : queue[i].op \notin LoadingOps

\* C21: whenever every started operation that sets the loading flag (load, add,
\* update, delete, export) has settled, with a success or with a persistence
\* error, the flag is false; and a failed request is not issued again: the
\* failure takes it out of the requests in flight and starts no other.
C21_LoadingCleared ==
    [][/\ AllSettled(dbQueue') => ~loading'
       /\ lastOp'.op = "rejected" => dbQueue' = Tail(dbQueue)]_vars

\* an add, update, delete or load has just failed with nothing else in flight
C21_Witness ==
    /\ lastOp.op = "rejected"
    /\ lastOp.request.op \in LoadingOps \ {"getAll"}
    /\ dbQueue = <<>>
    /\ ~loading

\* C25: under every interleaving of calls to the gateway the database is opened
\* at most once per process: every call of getDB, also one made while the first
\* open is pending, gets the promise of that one open.
C25_OpenedOnce ==
    /\ call.opens <= 1
    /\ dbQueue # <<>> => call.fn = "initDB" /\ call.opens = 1

\* two methods wait for the handle while the open request has not answered
C25_Witness ==
    /\ call.fn = "initDB"
    /\ ~ret.done
    /\ Len(dbQueue) = MaxQueue
    /\ dbQueue[1].op # dbQueue[2].op

\* C24: a task added through handleAddTask while the day view shows date D is
\* handed to the store with no logs, totalDuration 0, completed false and an
\* order strictly greater than the order of every incomplete task the day view
\* shows for D.
C24_NewTaskOrderedLast ==
    [][\A isAdHoc \in BOOLEAN, range \in FormRanges :
           HandleAddTask(isAdHoc, range[1], range[2]) =>
               LET added == dbQueue'[Len(dbQueue')].task
               IN  /\ added.logs = <<>>
                   /\ added.totalDuration = 0
                   /\ ~added.completed
                   /\ \A i \in 1..Len(tasks) :
                          ~tasks[i].completed => added.order > tasks[i].order]_vars

\* the fields of a task other than order
SameButOrder(task, rec) == task = [rec EXCEPT !.order = task.order]

\* C26: a reorder changes nothing but the order of the persisted tasks: when
\* moveTask is called, the records it hands to batchUpdateTaskOrder carry, in
\* every field other than order, what the store holds for the task, so that
\* what an earlier updateTask has written stays as written. (The hover handler
\* calls moveTask for two different positions.)
C26_MoveKeepsOtherFields ==
    [][\A dragIndex \in 0..MaxShown, hoverIndex \in 0..MaxShown :
           (dragIndex # hoverIndex /\ MoveTask(dragIndex, hoverIndex) /\ ~lastOp'.noop) =>
               LET batch == dbQueue'[Len(dbQueue')].tasks
               IN  \A i \in 1..Len(batch) :
                       batch[i].id \in DOMAIN store =>
                           SameButOrder(batch[i], store[batch[i].id])]_vars

\* C29: logs on different dates never conflict: a proposed log of positive
\* duration is accepted whenever no log of the task with the same date, in the
\* card or in the task the list shows, intersects it.
C29_OtherDatesNeverConflict ==
    [][\A id \in 1..MaxClock, newLog \in NewLogs :
           (/\ HandleAddLog(id, newLog)
            /\ IsFilled(newLog)
            /\ newLog.startTime < newLog.endTime
            /\ \A k \in 1..Len(cards[id].logs) :
                   cards[id].logs[k].date = newLog.date
                       => ~LogsIntersect(newLog, cards[id].logs[k])
            /\ LET shown == tasks[FindIndex(tasks, id)].logs
               IN  \A k \in 1..Len(shown) :
                       shown[k].date = newLog.date => ~LogsIntersect(newLog, shown[k]))
           => lastOp'.alert = "ok"]_vars

\* C27: for any sequence of navigations and refreshes whose loads complete in
\* any order, once no loadTasks is in flight the list of the day view holds
\* exactly the stored tasks that occur on the currently selected date.
C27_ListShowsCurrentDate ==
    (\A i \in 1..Len(dbQueue) : dbQueue[i].op # "getAll")
        => IdsOf(tasks) = OccurringIds(store, {currentDate})

\* the values of isAdHoc that have been saved for a task: in the store, in an
\* update in flight, or in the list the day view has loaded
SavedAdHoc(id) ==
    {store[k].isAdHoc : k \in DOMAIN store \cap {id}}
    \cup {tasks[i].isAdHoc : i \in {j \in 1..Len(tasks) : tasks[j].id = id}}
    \cup {dbQueue[i].task.isAdHoc :
              i \in {j \in 1..Len(dbQueue) : dbQueue[j].op = "update" /\ dbQueue[j].task.id = id}}

\* C28: cancelling a card edit discards the edited values: ticking the card
\* afterwards persists no ad-hoc value that was typed during the cancelled edit,
\* only one that was saved before.
C28_CancelDiscardsEdits ==
    [][\A id \in 1..MaxShown :
           (HandleCompletedChange(id) /\ Len(dbQueue') > Len(dbQueue)) =>
               dbQueue'[Len(dbQueue')].task.isAdHoc \in SavedAdHoc(id)]_vars

\* C30: a task created through the form while the day view shows date D is,
\* once persisted, in the list that a load of D yields, whatever the ad-hoc
\* flag, the estimated hours, the deadline and the start and end date of the
\* form were. (addTask stores D as the date of the task.)
C30_CreatedTaskVisibleOnItsDay ==
    \A id \in DOMAIN store : id \in IdsOf(loadedTasks(store, store[id].date))

====
